---- MODULE Spec2Model ----
(***************************************************************************)
(* Multi-terminal session orchestration of 9000 Code.                      *)
(*                                                                         *)
(*   - the local terminal manager of the Electron main process            *)
(*     (src/src/main/index.ts): the registry `terminals`, the set          *)
(*     `pendingTerminals`, the IPC handlers terminal:create / write /      *)
(*     resize / kill / runClaude, the PTY data and exit callbacks, and     *)
(*     the main window's closed handler;                                   *)
(*   - the remote access gateway (src/src/main/webTerminal.ts) with the    *)
(*     access token of webAuth (src/src/main/web-client/client.js,         *)
(*     lines 561-638) and the edition limits (src/src/shared/license.ts).  *)
(*                                                                         *)
(* Every handler runs to completion on the single-threaded event loop, so  *)
(* one action models one whole handler.  pty.spawn is synchronous.         *)
(***************************************************************************)
EXTENDS Integers, Sequences, FiniteSets, TLC

\* ------------------------------------------------------------------------
\* Bounds of the model
\* ------------------------------------------------------------------------
NumIds == 2
MaxProcs == 2
MaxPid == 2

Ids == 1..NumIds
Pids == 1..MaxPid
NoEntry == 0

VARIABLES
    terminals,          \* Map<string, TerminalEntry>: id -> process (0 = no entry)
    pendingTerminals,   \* Set<string>
    procs,              \* every PTY process spawned by the local manager
    mainWindow,         \* "open", "destroyed" (closed handler still to run) or "null"
    ptyLoaded,          \* require('@lydell/node-pty') succeeded
    last                \* effect of the handler that ran last (history)

localVars == <<terminals, pendingTerminals, procs, mainWindow, ptyLoaded, last>>

\* Remote access gateway
NumSockets == 2
MaxRProcs == 2
TokenLen == 1
MaxTokens == 2

SocketIds == 1..NumSockets
HexDigits == {0, 1}
Null == <<-1>>
Undefined == <<-2>>

VARIABLES
    accessToken,        \* webAuth: let accessToken (Null before the first generateToken)
    generated,          \* every token value generateToken has returned (history)
    sock,               \* per connection: transport state and the handler closure
    webTerminals,       \* Map<string, WebTerminalSession>: socket id -> process (0 = no key)
    rprocs,             \* every PTY process spawned by the gateway
    got,                \* events each socket has received (history)
    authTok,            \* token that was current when the socket presented it (history)
    rlast               \* effect of the gateway handler that ran last (history)

remoteVars == <<accessToken, generated, sock, webTerminals, rprocs,
                got, authTok, rlast>>

\* Renderer: the XTerminal component's module state and the progress of
\* initTerminal for each terminal id
VARIABLES
    initializedTerminals,   \* Set<string>: ids whose initTerminal has called the IPC
    initPc,                 \* where initTerminal of the id stands
    xtermBanner             \* the id's xterm was written the 'Failed to start' lines

uiVars == <<initializedTerminals, initPc, xtermBanner>>

\* Renderer: the split layout of the application store (appStore)
MaxPanels == 3
MaxRenderPanels == 2
RatioChoices == {50}
NoTerminal == 0
DefaultId == 1

VARIABLES
    splitLayout,        \* layoutId, panels (id, terminalId, ratio), direction
    activePanelId,      \* index k of 'panel-k'
    activeTerminalId,   \* the active tab's terminal id
    llast               \* the store operation that ran last and its arguments (history)

layoutVars == <<splitLayout, activePanelId, activeTerminalId, llast>>

\* Web server (webServer.ts): module state and the servers it has created
MaxServers == 3

VARIABLES
    servers,            \* every HTTP server createServer has returned, with its socket.io server
    httpServer,         \* let httpServer: index into servers, 0 = null
    io,                 \* let io: index into servers (the socket.io server attached), 0 = null
    isRunning,          \* let isRunning
    wlast               \* the web server step that ran last (history)

webVars == <<servers, httpServer, io, isRunning, wlast>>

\* Renderer: the tabs of TerminalPanel and the module state of XTerminal
VARIABLES
    tabs,               \* TerminalPanel: the open tabs' terminal ids, in order
    nextTabId,          \* the id the next createNewTab gives (`tab-${Date.now()}` is fresh)
    mountedComponents,  \* Set<string>: terminal ids marked as mounted
    terminalInstances,  \* Map<string, ...>: ids that have an xterm instance
    cleanupTimers,      \* ids whose unmount cleanup timeout (100 ms) is pending
    initCalls           \* ids whose initTerminal() was called and is not yet handled

mountVars == <<tabs, nextTabId, mountedComponents, terminalInstances,
               cleanupTimers, initCalls>>

extVars == <<layoutVars, webVars, mountVars>>

vars == <<localVars, remoteVars, uiVars, extVars>>

\* ------------------------------------------------------------------------
\* Local terminal manager
\* ------------------------------------------------------------------------

\* PIDs the operating system cannot hand out: those of processes that have
\* not terminated.  A terminated process whose exit event has not yet been
\* delivered to the event loop no longer owns its PID.
PidsInUse == { procs[p].pid : p \in { q \in DOMAIN procs : procs[q].state = "running" } }

\* The entry's pid field (entry.pid), 0 when the id has no entry.
EntryPid(id) == IF terminals[id] = NoEntry THEN 0 ELSE procs[terminals[id]].pid

\* The test of safeSend: mainWindow && !mainWindow.isDestroyed() &&
\* mainWindow.webContents && !mainWindow.webContents.isDestroyed()
windowAlive == mainWindow = "open"

\* Variant: the liveness test is skipped
safeSend_Always == TRUE

\* safeSend: delivers only while the window and its webContents are alive;
\* otherwise the message is dropped (returns false), never thrown, never queued.
safeSend == windowAlive

\* A PTY process: the id and pid captured by its callbacks, the handler that
\* spawned it, its life cycle, whether kill() was called on it, and whether its
\* terminal:exit notification reached the UI (history)
NewProc(id, pid, via) ==
    [id |-> id, pid |-> pid, via |-> via, state |-> "running", killed |-> FALSE,
     exitSent |-> FALSE]

Effect(op, id, proc, had, ok, spawned, sent) ==
    [op |-> op, id |-> id, proc |-> proc, had |-> had, ok |-> ok,
     spawned |-> spawned, sent |-> sent]

\* Variant: kill() is not called
KillAll_None(ps) == procs

\* pty.kill() on a set of processes
KillAll(ps) ==
    [p \in DOMAIN procs |-> IF p \in ps THEN [procs[p] EXCEPT !.killed = TRUE] ELSE procs[p]]

\* ipcMain.handle('terminal:create'): no look-up of the registry precedes the
\* spawn; terminals.set overwrites whatever entry the id had.
terminal_create(id) ==
    /\ windowAlive
    /\ IF ~ptyLoaded
       THEN /\ last' = Effect("create", id, 0, terminals[id], FALSE, FALSE, FALSE)
            /\ UNCHANGED <<terminals, pendingTerminals, procs>>
       ELSE \/ \* pty.spawn throws
               /\ last' = Effect("create", id, 0, terminals[id], FALSE, FALSE, FALSE)
               /\ UNCHANGED <<terminals, pendingTerminals, procs>>
            \/ /\ Len(procs) < MaxProcs
               /\ \E pid \in Pids \ PidsInUse :
                    /\ procs' = Append(procs, NewProc(id, pid, "create"))
                    /\ terminals' = [terminals EXCEPT ![id] = Len(procs) + 1]
                    /\ last' = Effect("create", id, Len(procs) + 1, terminals[id],
                                      TRUE, TRUE, FALSE)
               /\ UNCHANGED pendingTerminals
    /\ UNCHANGED <<mainWindow, ptyLoaded>>

\* terminal:create invoked over IPC
Create(id) ==
    /\ UNCHANGED <<remoteVars, uiVars, extVars>>
    /\ terminal_create(id)

\* Variant: a write to an id without entry is accepted and reported as done
Write_ReportsSuccess(id) ==
    /\ UNCHANGED <<remoteVars, uiVars, extVars>>
    /\ windowAlive
    /\ last' = Effect("write", id, terminals[id], terminals[id], TRUE, FALSE, FALSE)
    /\ UNCHANGED <<terminals, pendingTerminals, procs, mainWindow, ptyLoaded>>

\* ipcMain.handle('terminal:write')
Write(id) ==
    /\ UNCHANGED <<remoteVars, uiVars, extVars>>
    /\ windowAlive
    /\ last' = Effect("write", id, terminals[id], terminals[id],
                      terminals[id] # NoEntry, FALSE, FALSE)
    /\ UNCHANGED <<terminals, pendingTerminals, procs, mainWindow, ptyLoaded>>

\* ipcMain.handle('terminal:resize')
Resize(id) ==
    /\ UNCHANGED <<remoteVars, uiVars, extVars>>
    /\ windowAlive
    /\ last' = Effect("resize", id, terminals[id], terminals[id],
                      terminals[id] # NoEntry, FALSE, FALSE)
    /\ UNCHANGED <<terminals, pendingTerminals, procs, mainWindow, ptyLoaded>>

\* The handler of terminal:kill
terminal_kill(id) ==
    IF terminals[id] # NoEntry
    THEN /\ procs' = KillAll({terminals[id]})
         /\ terminals' = [terminals EXCEPT ![id] = NoEntry]
         /\ last' = Effect("kill", id, terminals[id], terminals[id], TRUE, FALSE, FALSE)
    ELSE /\ last' = Effect("kill", id, 0, NoEntry, FALSE, FALSE, FALSE)
         /\ UNCHANGED <<terminals, procs>>

\* Variant: kill tells the UI at once that the terminal exited
Kill_NotifiesExit(id) ==
    /\ UNCHANGED <<remoteVars, uiVars, extVars>>
    /\ windowAlive
    /\ IF terminals[id] # NoEntry
       THEN /\ procs' = [KillAll({terminals[id]}) EXCEPT ![terminals[id]].exitSent = safeSend]
            /\ terminals' = [terminals EXCEPT ![id] = NoEntry]
            /\ last' = Effect("kill", id, terminals[id], terminals[id], TRUE, FALSE, safeSend)
       ELSE /\ last' = Effect("kill", id, 0, NoEntry, FALSE, FALSE, FALSE)
            /\ UNCHANGED <<terminals, procs>>
    /\ UNCHANGED <<pendingTerminals, mainWindow, ptyLoaded>>

\* ipcMain.handle('terminal:kill')
Kill(id) ==
    /\ UNCHANGED <<remoteVars, uiVars, extVars>>
    /\ windowAlive
    /\ terminal_kill(id)
    /\ UNCHANGED <<pendingTerminals, mainWindow, ptyLoaded>>

\* Variant: the guard looks at the pending set only
AlreadyExistsOrPending_PendingOnly(id) == id \in pendingTerminals

\* The guard of terminal:runClaude
AlreadyExistsOrPending(id) == terminals[id] # NoEntry \/ id \in pendingTerminals

\* Variant: the catch block leaves the pending mark in place
PendingAfterCatch_Leak(id) == pendingTerminals \cup {id}

\* pendingTerminals after add(id) and the delete(id) of the catch block
PendingAfterCatch(id) == (pendingTerminals \cup {id}) \ {id}

\* pendingTerminals after add(id) and the delete(id) that follows terminals.set
PendingAfterSpawn(id) == (pendingTerminals \cup {id}) \ {id}

\* ipcMain.handle('terminal:runClaude'): guard, pendingTerminals.add, spawn,
\* terminals.set and pendingTerminals.delete all run in one synchronous section.
terminal_runClaude(id) ==
    /\ windowAlive
    /\ IF ~ptyLoaded
       THEN /\ last' = Effect("runClaude", id, 0, terminals[id], FALSE, FALSE, FALSE)
            /\ UNCHANGED <<terminals, pendingTerminals, procs>>
       ELSE IF AlreadyExistsOrPending(id)
       THEN /\ last' = Effect("runClaude", id, 0, terminals[id], TRUE, FALSE, FALSE)
            /\ UNCHANGED <<terminals, pendingTerminals, procs>>
       ELSE \/ \* pty.spawn throws: catch deletes the pending mark
               /\ pendingTerminals' = PendingAfterCatch(id)
               /\ last' = Effect("runClaude", id, 0, terminals[id], FALSE, FALSE, FALSE)
               /\ UNCHANGED <<terminals, procs>>
            \/ /\ Len(procs) < MaxProcs
               /\ \E pid \in Pids \ PidsInUse :
                    /\ procs' = Append(procs, NewProc(id, pid, "runClaude"))
                    /\ terminals' = [terminals EXCEPT ![id] = Len(procs) + 1]
                    /\ last' = Effect("runClaude", id, Len(procs) + 1, terminals[id],
                                      TRUE, TRUE, FALSE)
               /\ pendingTerminals' = PendingAfterSpawn(id)
    /\ UNCHANGED <<mainWindow, ptyLoaded>>

\* terminal:runClaude invoked over IPC
RunClaude(id) ==
    /\ UNCHANGED <<remoteVars, uiVars, extVars>>
    /\ terminal_runClaude(id)

\* `entry && entry.pid === pid` as evaluated inside the callbacks of process p
StillActive(p) == terminals[procs[p].id] # NoEntry /\ EntryPid(procs[p].id) = procs[p].pid

\* Whether the data callback of process p forwards: the callback installed by
\* terminal:create forwards unconditionally, the one installed by
\* terminal:runClaude only while the registry still names its pid.
DataForwarded(p) == IF procs[p].via = "create" THEN TRUE ELSE StillActive(p)

\* term.onData of process p.  Output can still arrive after the process has
\* terminated, until its exit event is delivered.
OnData(p) ==
    /\ UNCHANGED <<remoteVars, uiVars, extVars>>
    /\ p \in DOMAIN procs
    /\ procs[p].state \in {"running", "exiting"}
    /\ last' = Effect("onData", procs[p].id, p, terminals[procs[p].id], TRUE, FALSE,
                      DataForwarded(p) /\ safeSend)
    /\ UNCHANGED <<terminals, pendingTerminals, procs, mainWindow, ptyLoaded>>

\* The process terminates (on its own or after pty.kill()); its exit event is
\* queued for the event loop and its PID returns to the operating system.
ProcExit(p) ==
    /\ UNCHANGED <<remoteVars, uiVars, extVars>>
    /\ p \in DOMAIN procs
    /\ procs[p].state = "running"
    /\ procs' = [procs EXCEPT ![p].state = "exiting"]
    /\ UNCHANGED <<terminals, pendingTerminals, mainWindow, ptyLoaded, last>>

\* Variant: the exit callback never takes the exit for the current one
ExitMatches_Never(p) == FALSE

\* Variant: the exit callback deletes whatever entry the id has
ExitMatches_AnyEntry(p) == terminals[procs[p].id] # NoEntry

\* Whether the exit callback of process p treats the exit as the current one
ExitMatches(p) == StillActive(p)

\* term.onExit of process p (identical in terminal:create and terminal:runClaude)
OnExit(p) ==
    /\ UNCHANGED <<remoteVars, uiVars, extVars>>
    /\ p \in DOMAIN procs
    /\ procs[p].state = "exiting"
    /\ procs' = [procs EXCEPT ![p].state = "done",
                              ![p].exitSent = ExitMatches(p) /\ safeSend]
    /\ IF ExitMatches(p)
       THEN /\ terminals' = [terminals EXCEPT ![procs[p].id] = NoEntry]
            /\ last' = Effect("onExit", procs[p].id, p, terminals[procs[p].id],
                              TRUE, FALSE, safeSend)
       ELSE /\ last' = Effect("onExit", procs[p].id, p, terminals[procs[p].id],
                              FALSE, FALSE, FALSE)
            /\ UNCHANGED terminals
    /\ UNCHANGED <<pendingTerminals, mainWindow, ptyLoaded>>

\* The window or its webContents is destroyed and the 'closed' handler has not
\* run yet: mainWindow is still set, isDestroyed() answers true.  The renderer
\* process, and with it the module state of its components, is gone.  No
\* handler of the main process runs.
WindowDestroyed ==
    /\ UNCHANGED <<remoteVars, extVars>>
    /\ mainWindow = "open"
    /\ mainWindow' = "destroyed"
    /\ initializedTerminals' = {}
    /\ initPc' = [id \in Ids |-> "none"]
    /\ xtermBanner' = [id \in Ids |-> FALSE]
    /\ UNCHANGED <<terminals, pendingTerminals, procs, ptyLoaded, last>>

\* mainWindow.on('closed'); the renderer process of the window, and with it the
\* module state of its components, is gone
WindowClosed ==
    /\ UNCHANGED <<remoteVars, extVars>>
    /\ initializedTerminals' = {}
    /\ initPc' = [id \in Ids |-> "none"]
    /\ xtermBanner' = [id \in Ids |-> FALSE]
    /\ mainWindow \in {"open", "destroyed"}
    /\ mainWindow' = "null"
    /\ procs' = KillAll({ terminals[id] : id \in { i \in Ids : terminals[i] # NoEntry } })
    /\ terminals' = [id \in Ids |-> NoEntry]
    /\ last' = Effect("closed", 0, 0, 0, TRUE, FALSE, FALSE)
    /\ UNCHANGED <<pendingTerminals, ptyLoaded>>

\* app.on('activate') -> createWindow() when no window is left
CreateWindow ==
    /\ UNCHANGED <<remoteVars, uiVars, extVars>>
    /\ mainWindow = "null"
    /\ mainWindow' = "open"
    /\ last' = Effect("createWindow", 0, 0, 0, TRUE, FALSE, FALSE)
    /\ UNCHANGED <<terminals, pendingTerminals, procs, ptyLoaded>>

\* ------------------------------------------------------------------------
\* Renderer: initTerminal of the XTerminal component
\* ------------------------------------------------------------------------

\* initTerminal up to the reply of terminal:runClaude: the duplicate-call test
\* on initializedTerminals, then the IPC call.  The main process handles the
\* request in the same step; what it does between the request and the handling
\* could as well have preceded the request.
initTerminal(id) ==
    /\ id \notin initializedTerminals
    /\ initPc[id] = "none"
    /\ initializedTerminals' = initializedTerminals \cup {id}
    /\ terminal_runClaude(id)
    /\ initPc' = [initPc EXCEPT ![id] = IF last'.ok THEN "listening" ELSE "failed"]
    /\ UNCHANGED xtermBanner

InitTerminal(id) ==
    /\ UNCHANGED <<remoteVars, extVars>>
    /\ initTerminal(id)

\* initTerminal after runClaude replied success: false.  The 'Failed to start
\* Claude: <error>' lines are written to the id's xterm, terminal:create is
\* invoked as the fallback and, whatever it replies, the data and exit
\* listeners are subscribed.
InitFallback(id) ==
    /\ UNCHANGED <<remoteVars, extVars>>
    /\ initPc[id] = "failed"
    /\ xtermBanner' = [xtermBanner EXCEPT ![id] = TRUE]
    /\ terminal_create(id)
    /\ initPc' = [initPc EXCEPT ![id] = "listening"]
    /\ UNCHANGED initializedTerminals

InitUI ==
    /\ initializedTerminals = {}
    /\ initPc = [id \in Ids |-> "none"]
    /\ xtermBanner = [id \in Ids |-> FALSE]

InitLocal ==
    /\ terminals = [id \in Ids |-> NoEntry]
    /\ pendingTerminals = {}
    /\ procs = <<>>
    /\ mainWindow = "open"
    /\ ptyLoaded \in BOOLEAN
    /\ last = Effect("init", 0, 0, 0, TRUE, FALSE, FALSE)

NextLocal ==
    \/ \E id \in Ids : Create(id)
    \/ \E id \in Ids : Write(id)
    \/ \E id \in Ids : Resize(id)
    \/ \E id \in Ids : Kill(id)
    \/ \E id \in Ids : RunClaude(id)
    \/ \E p \in 1..MaxProcs : OnData(p)
    \/ \E p \in 1..MaxProcs : ProcExit(p)
    \/ \E p \in 1..MaxProcs : OnExit(p)
    \/ WindowDestroyed
    \/ WindowClosed
    \/ CreateWindow

\* ------------------------------------------------------------------------
\* Access token (webAuth)
\* ------------------------------------------------------------------------

\* Values crypto.randomBytes(32).toString('hex') can return, shortened to
\* TokenLen digits over HexDigits
Tokens == [1..TokenLen -> HexDigits]

\* What a client can put in the token field: any string up to one digit longer
\* than a token (the empty string included), or nothing
PresentedTokens == (UNION { [1..n -> HexDigits] : n \in 0..(TokenLen + 1) }) \cup {Undefined}

\* The argument of an 'auth' event: an object with a token field, or no argument
AuthPayloads == { [present |-> TRUE, token |-> t] : t \in PresentedTokens }
                    \cup { [present |-> FALSE, token |-> Undefined] }

\* JavaScript falsiness of a token: undefined or the empty string
Falsy(token) == token = Undefined \/ token = <<>>

\* Variant: the comparison of the bytes is skipped
timingSafeEqual_Always(a, b) == TRUE

\* crypto.timingSafeEqual on two buffers of equal length
timingSafeEqual(a, b) == \A i \in 1..Len(a) : a[i] = b[i]

\* Variant: only the length of the token is compared
validateToken_LengthOnly(token) ==
    IF accessToken = Null \/ Falsy(token) THEN FALSE
    ELSE Len(token) = Len(accessToken)

\* Variant: every token ever generated stays valid
validateToken_AnyGenerated(token) ==
    IF accessToken = Null \/ Falsy(token) THEN FALSE
    ELSE token \in generated

validateToken(token) ==
    IF accessToken = Null \/ Falsy(token) THEN FALSE
    ELSE IF Len(token) # Len(accessToken) THEN FALSE
    ELSE timingSafeEqual(token, accessToken)

\* generateToken: 32 random bytes; a value never repeats an earlier one
generateToken(t) ==
    /\ t \in Tokens \ generated
    /\ Cardinality(generated) < MaxTokens
    /\ accessToken' = t
    /\ generated' = generated \cup {t}

\* ------------------------------------------------------------------------
\* Edition limits (license.ts) and the gateway (webTerminal.ts)
\* ------------------------------------------------------------------------
Infinity == 1000000
currentEdition == "community"
getEdition == currentEdition

maxRemoteConnections(edition) ==
    CASE edition = "community" -> 1
      [] edition = "pro" -> 10
      [] edition = "enterprise" -> Infinity

getMaxConnections ==
    IF maxRemoteConnections(getEdition) = Infinity THEN 999
    ELSE maxRemoteConnections(getEdition)

\* webTerminals.size
getConnectionCount == Cardinality({ s \in SocketIds : webTerminals[s] # 0 })

\* Variant: off-by-one capacity test
OverCapacity_Strict(size, maxConnections) == size > maxConnections

\* The capacity test of the connection handler
OverCapacity(size, maxConnections) == size >= maxConnections

\* What a handler did: the events it emitted to its socket, whether it spawned
\* a process, the process concerned (the one written to or resized, the one
\* whose data or exit callback ran, or the session that kill_terminal or
\* disconnect tore down; 0 = none), and, for auth, the kind of token it was given
REffect(op, s, emitted, spawned, proc, tok) ==
    [op |-> op, s |-> s, emitted |-> emitted, spawned |-> spawned, proc |-> proc,
     tok |-> tok]

\* The 'error' event with each of its four messages
ErrCapacity == "error: max connections reached"
ErrNotAuthenticated == "error: Not authenticated"
ErrTerminalExists == "error: Terminal already exists for this session"
ErrCreateFailed == "error: Failed to create terminal"

\* Events whose reception is remembered per socket
Remembered == {"auth_success"}

\* socket.emit: reaches the client only while the socket is connected
Emit(s, events) ==
    IF sock[s].state = "open" THEN [got EXCEPT ![s] = @ \cup (events \cap Remembered)]
    ELSE got

\* How the token of an auth payload relates to the tokens generated so far
TokClass(data) ==
    IF ~data.present THEN "nopayload"
    ELSE IF Falsy(data.token) THEN "missing"
    ELSE IF accessToken # Null /\ data.token = accessToken THEN "current"
    ELSE IF data.token \in generated THEN "previous"
    ELSE "other"

\* Variant: cleanup() forgets the session without killing its PTY
ProcsAfterCleanup_NoKill(s) == rprocs

\* cleanup() of the closure of socket s: kills the closure's current
\* terminalSession, removes the socket's key from webTerminals, clears the session
ProcsAfterCleanup(s) ==
    IF sock[s].terminalSession # 0
    THEN [rprocs EXCEPT ![sock[s].terminalSession].killed = TRUE]
    ELSE rprocs

WebAfterCleanup(s) ==
    IF sock[s].terminalSession # 0 THEN [webTerminals EXCEPT ![s] = 0] ELSE webTerminals

\* io.on('connection'): capacity check, then registration of the handlers
Connection(s) ==
    /\ UNCHANGED <<localVars, uiVars, extVars>>
    /\ sock[s].state = "idle"
    /\ IF s = 1 THEN TRUE ELSE sock[s - 1].state # "idle"
    /\ IF OverCapacity(getConnectionCount, getMaxConnections)
       THEN /\ sock' = [sock EXCEPT ![s].state = "closed"]
            /\ got' = got
            /\ rlast' = REffect("connection", s, {ErrCapacity}, FALSE, 0, "none")
       ELSE /\ sock' = [sock EXCEPT ![s].state = "open", ![s].admitted = TRUE]
            /\ got' = got
            /\ rlast' = REffect("connection", s, {}, FALSE, 0, "none")
    /\ UNCHANGED <<accessToken, generated, webTerminals, rprocs, authTok>>

\* socket.on('auth')
Auth(s, data) ==
    /\ UNCHANGED <<localVars, uiVars, extVars>>
    /\ sock[s].state = "open" /\ sock[s].admitted
    /\ authTok' = IF authTok[s] = Null /\ TokClass(data) = "current"
                  THEN [authTok EXCEPT ![s] = data.token] ELSE authTok
    /\ IF sock[s].authenticated
       THEN \* 'Already authenticated': return
            /\ rlast' = REffect("auth", s, {}, FALSE, 0, TokClass(data))
            /\ UNCHANGED <<sock, got, rprocs, webTerminals>>
       ELSE IF ~data.present
       THEN \* data.token on an undefined argument throws a TypeError
            /\ rlast' = REffect("auth", s, {}, FALSE, 0, TokClass(data))
            /\ UNCHANGED <<sock, got, rprocs, webTerminals>>
       ELSE IF Falsy(data.token) \/ ~validateToken(data.token)
       THEN \* auth_error, then socket.disconnect() (which runs the disconnect handler)
            /\ got' = Emit(s, {"auth_error"})
            /\ rprocs' = ProcsAfterCleanup(s)
            /\ webTerminals' = WebAfterCleanup(s)
            /\ sock' = [sock EXCEPT ![s].state = "closed", ![s].terminalSession = 0]
            /\ rlast' = REffect("auth", s, {"auth_error"}, FALSE, 0, TokClass(data))
       ELSE /\ sock' = [sock EXCEPT ![s].authenticated = TRUE]
            /\ got' = Emit(s, {"auth_success"})
            /\ rlast' = REffect("auth", s, {"auth_success"}, FALSE, 0, TokClass(data))
            /\ UNCHANGED <<rprocs, webTerminals>>
    /\ UNCHANGED <<accessToken, generated>>

\* Variant: the create_terminal handler does not look at terminalSession
HasTerminal_Never(s) == FALSE

\* `if (terminalSession)` in the create_terminal handler
HasTerminal(s) == sock[s].terminalSession # 0

\* socket.on('create_terminal'); present = the event carried an argument object
CreateTerminal(s, present) ==
    /\ UNCHANGED <<localVars, uiVars, extVars>>
    /\ sock[s].state = "open" /\ sock[s].admitted
    /\ IF ~sock[s].authenticated
       THEN /\ got' = Emit(s, {ErrNotAuthenticated})
            /\ rlast' = REffect("create_terminal", s, {ErrNotAuthenticated}, FALSE, 0, "none")
            /\ UNCHANGED <<sock, rprocs, webTerminals>>
       ELSE IF HasTerminal(s)
       THEN /\ got' = Emit(s, {ErrTerminalExists})
            /\ rlast' = REffect("create_terminal", s, {ErrTerminalExists}, FALSE, 0, "none")
            /\ UNCHANGED <<sock, rprocs, webTerminals>>
       ELSE IF ~present
       THEN \* data.cwd on an undefined argument throws a TypeError
            /\ rlast' = REffect("create_terminal", s, {}, FALSE, 0, "nopayload")
            /\ UNCHANGED <<sock, got, rprocs, webTerminals>>
       ELSE \/ \* pty.spawn throws
               /\ got' = Emit(s, {ErrCreateFailed})
               /\ rlast' = REffect("create_terminal", s, {ErrCreateFailed}, FALSE, 0, "none")
               /\ UNCHANGED <<sock, rprocs, webTerminals>>
            \/ /\ Len(rprocs) < MaxRProcs
               /\ rprocs' = Append(rprocs, [socket |-> s, state |-> "running", killed |-> FALSE])
               /\ sock' = [sock EXCEPT ![s].terminalSession = Len(rprocs) + 1]
               /\ webTerminals' = [webTerminals EXCEPT ![s] = Len(rprocs) + 1]
               /\ got' = Emit(s, {"terminal_ready"})
               /\ rlast' = REffect("create_terminal", s, {"terminal_ready"}, TRUE, 0, "none")
    /\ UNCHANGED <<accessToken, generated, authTok>>

\* The process that a terminal_input / terminal_resize on socket s reaches (0 = none)
InputTarget(s) ==
    IF ~sock[s].authenticated \/ sock[s].terminalSession = 0 THEN 0
    ELSE sock[s].terminalSession

\* socket.on('terminal_input')
TerminalInput(s) ==
    /\ UNCHANGED <<localVars, uiVars, extVars>>
    /\ sock[s].state = "open" /\ sock[s].admitted
    /\ rlast' = REffect("terminal_input", s, {}, FALSE, InputTarget(s), "none")
    /\ UNCHANGED <<accessToken, generated, sock, webTerminals, rprocs, got, authTok>>

\* socket.on('terminal_resize')
TerminalResize(s) ==
    /\ UNCHANGED <<localVars, uiVars, extVars>>
    /\ sock[s].state = "open" /\ sock[s].admitted
    /\ rlast' = REffect("terminal_resize", s, {}, FALSE, InputTarget(s), "none")
    /\ UNCHANGED <<accessToken, generated, sock, webTerminals, rprocs, got, authTok>>

\* socket.on('kill_terminal')
KillTerminal(s) ==
    /\ UNCHANGED <<localVars, uiVars, extVars>>
    /\ sock[s].state = "open" /\ sock[s].admitted
    /\ IF sock[s].terminalSession # 0
       THEN /\ rprocs' = ProcsAfterCleanup(s)
            /\ webTerminals' = WebAfterCleanup(s)
            /\ sock' = [sock EXCEPT ![s].terminalSession = 0]
            /\ got' = Emit(s, {"terminal_killed"})
            /\ rlast' = REffect("kill_terminal", s, {"terminal_killed"}, FALSE,
                                sock[s].terminalSession, "none")
       ELSE /\ rlast' = REffect("kill_terminal", s, {}, FALSE, 0, "none")
            /\ UNCHANGED <<sock, got, rprocs, webTerminals>>
    /\ UNCHANGED <<accessToken, generated, authTok>>

\* socket.on('disconnect'): the client or the transport closed the connection
Disconnect(s) ==
    /\ UNCHANGED <<localVars, uiVars, extVars>>
    /\ sock[s].state = "open" /\ sock[s].admitted
    /\ rprocs' = ProcsAfterCleanup(s)
    /\ webTerminals' = WebAfterCleanup(s)
    /\ sock' = [sock EXCEPT ![s].state = "closed", ![s].terminalSession = 0]
    /\ rlast' = REffect("disconnect", s, {}, FALSE, sock[s].terminalSession, "none")
    /\ UNCHANGED <<accessToken, generated, got, authTok>>

\* term.onData of gateway process p
ROnData(p) ==
    /\ UNCHANGED <<localVars, uiVars, extVars>>
    /\ p \in DOMAIN rprocs
    /\ rprocs[p].state \in {"running", "exiting"}
    /\ got' = Emit(rprocs[p].socket, {"terminal_data"})
    /\ rlast' = REffect("onData", rprocs[p].socket,
                        IF sock[rprocs[p].socket].state = "open" THEN {"terminal_data"} ELSE {},
                        FALSE, p, "none")
    /\ UNCHANGED <<accessToken, generated, sock, webTerminals, rprocs, authTok>>

\* Gateway process p terminates; its exit event is queued
RProcExit(p) ==
    /\ UNCHANGED <<localVars, uiVars, extVars>>
    /\ p \in DOMAIN rprocs
    /\ rprocs[p].state = "running"
    /\ rprocs' = [rprocs EXCEPT ![p].state = "exiting"]
    /\ rlast' = REffect("procExit", rprocs[p].socket, {}, FALSE, 0, "none")
    /\ UNCHANGED <<accessToken, generated, sock, webTerminals, got, authTok>>

\* term.onExit of gateway process p: terminal_exit, then cleanup() of the
\* closure of the socket that created p
ROnExit(p) ==
    /\ UNCHANGED <<localVars, uiVars, extVars>>
    /\ p \in DOMAIN rprocs
    /\ rprocs[p].state = "exiting"
    /\ got' = Emit(rprocs[p].socket, {"terminal_exit"})
    /\ rprocs' = [ProcsAfterCleanup(rprocs[p].socket) EXCEPT ![p].state = "done"]
    /\ webTerminals' = WebAfterCleanup(rprocs[p].socket)
    /\ sock' = [sock EXCEPT ![rprocs[p].socket].terminalSession = 0]
    /\ rlast' = REffect("onExit", rprocs[p].socket,
                        IF sock[rprocs[p].socket].state = "open" THEN {"terminal_exit"} ELSE {},
                        FALSE, p, "none")
    /\ UNCHANGED <<accessToken, generated, authTok>>

\* getToken: generates a token when none exists yet
GetToken ==
    /\ UNCHANGED <<localVars, uiVars, extVars>>
    /\ accessToken = Null
    /\ \E t \in Tokens : generateToken(t)
    /\ rlast' = REffect("getToken", 0, {}, FALSE, 0, "none")
    /\ UNCHANGED <<sock, webTerminals, rprocs, got, authTok>>

\* regenerateToken (webserver:regenerateToken)
RegenerateToken ==
    /\ UNCHANGED <<localVars, uiVars, extVars>>
    /\ \E t \in Tokens : generateToken(t)
    /\ rlast' = REffect("regenerateToken", 0, {}, FALSE, 0, "none")
    /\ UNCHANGED <<sock, webTerminals, rprocs, got, authTok>>

InitRemote ==
    /\ accessToken = Null
    /\ generated = {}
    /\ sock = [s \in SocketIds |-> [state |-> "idle", admitted |-> FALSE,
                                    authenticated |-> FALSE, terminalSession |-> 0]]
    /\ webTerminals = [s \in SocketIds |-> 0]
    /\ rprocs = <<>>
    /\ got = [s \in SocketIds |-> {}]
    /\ authTok = [s \in SocketIds |-> Null]
    /\ rlast = REffect("init", 0, {}, FALSE, 0, "none")

NextRemote ==
    \/ \E s \in SocketIds : Connection(s)
    \/ \E s \in SocketIds : \E data \in AuthPayloads : Auth(s, data)
    \/ \E s \in SocketIds : \E present \in BOOLEAN : CreateTerminal(s, present)
    \/ \E s \in SocketIds : TerminalInput(s)
    \/ \E s \in SocketIds : TerminalResize(s)
    \/ \E s \in SocketIds : KillTerminal(s)
    \/ \E s \in SocketIds : Disconnect(s)
    \/ \E p \in 1..MaxRProcs : ROnData(p)
    \/ \E p \in 1..MaxRProcs : RProcExit(p)
    \/ \E p \in 1..MaxRProcs : ROnExit(p)
    \/ GetToken
    \/ RegenerateToken

\* ------------------------------------------------------------------------
\* Renderer: split layout operations of the application store
\* ------------------------------------------------------------------------

LayoutIds == {"single", "horizontal-2", "vertical-2", "horizontal-3",
              "grid-4", "left-main", "top-main"}

\* The layout templates; a panel 'panel-k' is panels[k+1]
SPLIT_LAYOUTS ==
    [l \in LayoutIds |->
        CASE l = "single" ->
                [panels |-> 1, direction |-> "horizontal", defaultRatios |-> <<100>>]
          [] l = "horizontal-2" ->
                [panels |-> 2, direction |-> "horizontal", defaultRatios |-> <<50, 50>>]
          [] l = "vertical-2" ->
                [panels |-> 2, direction |-> "vertical", defaultRatios |-> <<50, 50>>]
          [] l = "horizontal-3" ->
                [panels |-> 3, direction |-> "horizontal", defaultRatios |-> <<33, 34, 33>>]
          [] l = "grid-4" ->
                [panels |-> 4, direction |-> "grid", defaultRatios |-> <<25, 25, 25, 25>>]
          [] l = "left-main" ->
                [panels |-> 3, direction |-> "horizontal", defaultRatios |-> <<60, 20, 20>>]
          [] l = "top-main" ->
                [panels |-> 3, direction |-> "vertical", defaultRatios |-> <<60, 20, 20>>]]

PanelIds == 0..(MaxPanels - 1)

\* c: what the operation read before it wrote (history)
LayoutOp(op, a, b, c) == [op |-> op, a |-> a, b |-> b, c |-> c]

\* currentPanels.map(p => p.terminalId).filter(id => id !== null)
existingTerminalIds(panels) ==
    SelectSeq([i \in 1..Len(panels) |-> panels[i].terminalId],
              LAMBDA t : t # NoTerminal)

\* Variant: a layout change clears every assignment
NewPanels_Cleared(layoutId) ==
    [i \in 1..Len(SPLIT_LAYOUTS[layoutId].defaultRatios) |->
        [id |-> i - 1, terminalId |-> NoTerminal,
         ratio |-> SPLIT_LAYOUTS[layoutId].defaultRatios[i]]]

\* The panel list setSplitLayout builds from the template's defaultRatios
NewPanels(layoutId) ==
    LET layout == SPLIT_LAYOUTS[layoutId]
        existing == existingTerminalIds(splitLayout.panels)
    IN  [i \in 1..Len(layout.defaultRatios) |->
            [id |-> i - 1,
             terminalId |-> IF i <= Len(existing) THEN existing[i]
                            ELSE IF i = 1 /\ Len(existing) = 0 THEN activeTerminalId
                            ELSE NoTerminal,
             ratio |-> layout.defaultRatios[i]]]

\* setSplitLayout(layoutId); an id that names no template changes nothing
setSplitLayout(layoutId) ==
    /\ llast' = LayoutOp("setSplitLayout", layoutId, 0,
                        existingTerminalIds(splitLayout.panels))
    /\ IF layoutId \notin LayoutIds
       THEN UNCHANGED <<splitLayout, activePanelId>>
       ELSE /\ splitLayout' = [layoutId |-> layoutId,
                               panels |-> NewPanels(layoutId),
                               direction |-> SPLIT_LAYOUTS[layoutId].direction]
            /\ activePanelId' = 0
    /\ UNCHANGED activeTerminalId

SetSplitLayout(layoutId) ==
    /\ setSplitLayout(layoutId)
    /\ UNCHANGED <<localVars, remoteVars, uiVars, webVars, mountVars>>

\* updatePanelRatio(panelId, newRatio)
UpdatePanelRatio(panelId, newRatio) ==
    /\ llast' = LayoutOp("updatePanelRatio", panelId, newRatio, 0)
    /\ splitLayout' =
          [splitLayout EXCEPT !.panels =
              [i \in 1..Len(@) |->
                  IF @[i].id = panelId THEN [@[i] EXCEPT !.ratio = newRatio] ELSE @[i]]]
    /\ UNCHANGED <<activePanelId, activeTerminalId>>
    /\ UNCHANGED <<localVars, remoteVars, uiVars, webVars, mountVars>>

\* updatePanelRatios(ratios): ratio: ratios[index] ?? p.ratio
UpdatePanelRatios(ratios) ==
    /\ llast' = LayoutOp("updatePanelRatios", ratios, 0, 0)
    /\ splitLayout' =
          [splitLayout EXCEPT !.panels =
              [i \in 1..Len(@) |->
                  [@[i] EXCEPT !.ratio = IF i <= Len(ratios) THEN ratios[i] ELSE @]]]
    /\ UNCHANGED <<activePanelId, activeTerminalId>>
    /\ UNCHANGED <<localVars, remoteVars, uiVars, webVars, mountVars>>

\* Variant: the terminal is assigned to every panel
PanelsAfterAssign_All(panels, panelId, terminalId) ==
    [i \in 1..Len(panels) |-> [panels[i] EXCEPT !.terminalId = terminalId]]

\* panels.map(p => p.id === panelId ? { ...p, terminalId } : p)
PanelsAfterAssign(panels, panelId, terminalId) ==
    [i \in 1..Len(panels) |->
        IF panels[i].id = panelId THEN [panels[i] EXCEPT !.terminalId = terminalId]
        ELSE panels[i]]

\* assignTerminalToPanel(panelId, terminalId)
assignTerminalToPanel(panelId, terminalId) ==
    /\ llast' = LayoutOp("assignTerminalToPanel", panelId, terminalId, 0)
    /\ splitLayout' = [splitLayout EXCEPT
                          !.panels = PanelsAfterAssign(@, panelId, terminalId)]
    /\ UNCHANGED <<activePanelId, activeTerminalId>>

AssignTerminalToPanel(panelId, terminalId) ==
    /\ assignTerminalToPanel(panelId, terminalId)
    /\ UNCHANGED <<localVars, remoteVars, uiVars, webVars, mountVars>>

\* panels.find(p => ...): index of the first panel that passes the test, 0 if none
FindPanel(panels, hits) ==
    IF hits \cap (1..Len(panels)) = {} THEN 0
    ELSE CHOOSE i \in hits \cap (1..Len(panels)) :
            \A j \in hits \cap (1..Len(panels)) : i <= j

\* Variant: the source panel is emptied instead of receiving the target's terminal
PanelsAfterSwap_Orphan(panels, droppedTerminalId, targetPanelId) ==
    LET source == FindPanel(panels, { i \in 1..Len(panels) : panels[i].terminalId = droppedTerminalId })
    IN  [i \in 1..Len(panels) |->
            IF panels[i].id = targetPanelId
            THEN [panels[i] EXCEPT !.terminalId = droppedTerminalId]
            ELSE IF i = source THEN [panels[i] EXCEPT !.terminalId = NoTerminal]
            ELSE panels[i]]

\* Variant: the source panel keeps the dropped terminal
PanelsAfterSwap_Overwrite(panels, droppedTerminalId, targetPanelId) ==
    [i \in 1..Len(panels) |->
        IF panels[i].id = targetPanelId
        THEN [panels[i] EXCEPT !.terminalId = droppedTerminalId]
        ELSE panels[i]]

\* The panel list swapTerminals returns
PanelsAfterSwap(panels, droppedTerminalId, targetPanelId) ==
    LET sourcePanel == FindPanel(panels, { i \in 1..Len(panels) : panels[i].terminalId = droppedTerminalId })
        targetPanel == FindPanel(panels, { i \in 1..Len(panels) : panels[i].id = targetPanelId })
    IN  IF targetPanel = 0 THEN panels
        ELSE [i \in 1..Len(panels) |->
                IF panels[i].id = targetPanelId
                THEN [panels[i] EXCEPT !.terminalId = droppedTerminalId]
                ELSE IF sourcePanel # 0 /\ panels[i].id = panels[sourcePanel].id
                THEN [panels[i] EXCEPT !.terminalId = panels[targetPanel].terminalId]
                ELSE panels[i]]

\* swapTerminals(droppedTerminalId, targetPanelId)
swapTerminals(droppedTerminalId, targetPanelId) ==
    /\ llast' = LayoutOp("swapTerminals", droppedTerminalId, targetPanelId,
                        [source |-> FindPanel(splitLayout.panels, { i \in 1..Len(splitLayout.panels) : splitLayout.panels[i].terminalId = droppedTerminalId }),
                         held |-> IF targetPanelId + 1 \in 1..Len(splitLayout.panels)
                                  THEN splitLayout.panels[targetPanelId + 1].terminalId
                                  ELSE NoTerminal])
    /\ splitLayout' = [splitLayout EXCEPT
                          !.panels = PanelsAfterSwap(@, droppedTerminalId, targetPanelId)]
    /\ UNCHANGED <<activePanelId, activeTerminalId>>

SwapTerminals(droppedTerminalId, targetPanelId) ==
    /\ swapTerminals(droppedTerminalId, targetPanelId)
    /\ UNCHANGED <<localVars, remoteVars, uiVars, webVars, mountVars>>

\* setActivePanelId(panelId)
SetActivePanelId(panelId) ==
    /\ llast' = LayoutOp("setActivePanelId", 0, 0, 0)
    /\ activePanelId' = panelId
    /\ UNCHANGED <<splitLayout, activeTerminalId>>
    /\ UNCHANGED <<localVars, remoteVars, uiVars, webVars, mountVars>>

\* setActiveTerminalId(id)
SetActiveTerminalId(id) ==
    /\ llast' = LayoutOp("setActiveTerminalId", 0, 0, 0)
    /\ activeTerminalId' = id
    /\ UNCHANGED <<splitLayout, activePanelId>>
    /\ UNCHANGED <<localVars, remoteVars, uiVars, webVars, mountVars>>

InitialSplitLayout ==
    [layoutId |-> "single",
     panels |-> <<[id |-> 0, terminalId |-> NoTerminal, ratio |-> 100]>>,
     direction |-> "horizontal"]

InitLayout ==
    /\ splitLayout = InitialSplitLayout
    /\ activePanelId = 0
    /\ activeTerminalId = DefaultId
    /\ llast = LayoutOp("init", 0, 0, 0)

\* Templates the layout selector is used with: those of at most MaxPanels panels
LayoutChoices == { l \in LayoutIds : SPLIT_LAYOUTS[l].panels <= MaxPanels }

\* Ratio lists handed to updatePanelRatios: at most as long as the panel list
RatioLists == UNION { [1..n -> RatioChoices] : n \in 0..Len(splitLayout.panels) }

NextLayout ==
    \/ \E l \in LayoutChoices \cup {"none"} : SetSplitLayout(l)
    \/ \E k \in PanelIds, r \in RatioChoices : UpdatePanelRatio(k, r)
    \/ \E rs \in RatioLists : UpdatePanelRatios(rs)
    \/ \E k \in PanelIds, t \in Ids : AssignTerminalToPanel(k, t)
    \/ \E t \in Ids, k \in PanelIds : SwapTerminals(t, k)
    \/ \E k \in PanelIds : SetActivePanelId(k)
    \/ \E t \in Ids : SetActiveTerminalId(t)

\* ------------------------------------------------------------------------
\* Web server: startWebServer / stopWebServer
\* ------------------------------------------------------------------------

\* A server is "starting" from listen() to its callback or error event,
\* "listening", "failed" after the error event, "closing" from close() to the
\* close callback, then "closed".  closePending: a close callback is registered.
NewServer == [state |-> "starting", ioOpen |-> TRUE, closePending |-> FALSE]

\* Servers that hold the port: every server listens on DEFAULT_PORT, since both
\* callers pass no config
PortHolders == { k \in DOMAIN servers : servers[k].state \in {"listening", "closing"} }

\* disconnectAll(): kills the PTY of every web terminal session and disconnects
\* its socket, whose disconnect handler runs cleanup(); then clears the map
disconnectAll ==
    /\ rprocs' = [p \in DOMAIN rprocs |->
                    IF \E s \in SocketIds :
                          p \in {webTerminals[s], sock[s].terminalSession}
                             /\ webTerminals[s] # 0
                    THEN [rprocs[p] EXCEPT !.killed = TRUE]
                    ELSE rprocs[p]]
    /\ sock' = [s \in SocketIds |->
                    IF webTerminals[s] # 0
                    THEN [sock[s] EXCEPT !.state = "closed", !.terminalSession = 0]
                    ELSE sock[s]]
    /\ webTerminals' = [s \in SocketIds |-> 0]
    /\ UNCHANGED <<accessToken, generated, got, authTok, rlast>>

\* startWebServer(): resolves at once when isRunning; otherwise creates the
\* HTTP server and the socket.io server, stores them in the module variables
\* and calls listen
StartWebServer ==
    /\ UNCHANGED <<localVars, remoteVars, uiVars, layoutVars, mountVars>>
    /\ IF isRunning
       THEN /\ wlast' = [op |-> "start", created |-> 0]
            /\ UNCHANGED <<servers, httpServer, io, isRunning>>
       ELSE /\ Len(servers) < MaxServers
            /\ servers' = Append(servers, NewServer)
            /\ httpServer' = Len(servers) + 1
            /\ io' = Len(servers) + 1
            /\ wlast' = [op |-> "start", created |-> Len(servers) + 1]
            /\ UNCHANGED isRunning

\* The callback given to httpServer.listen of server k: isRunning = true
ListenCallback(k) ==
    /\ UNCHANGED <<localVars, remoteVars, uiVars, layoutVars, mountVars>>
    /\ k \in DOMAIN servers
    /\ servers[k].state = "starting"
    /\ PortHolders = {}
    /\ servers' = [servers EXCEPT ![k].state = "listening"]
    /\ isRunning' = TRUE
    /\ wlast' = [op |-> "listening", created |-> 0]
    /\ UNCHANGED <<httpServer, io>>

\* httpServer.on('error') of server k (EADDRINUSE or another listen error):
\* the promise is rejected, the module variables are left as they are
ListenError(k) ==
    /\ UNCHANGED <<localVars, remoteVars, uiVars, layoutVars, mountVars>>
    /\ k \in DOMAIN servers
    /\ servers[k].state = "starting"
    /\ servers' = [servers EXCEPT ![k].state = "failed"]
    /\ wlast' = [op |-> "listenError", created |-> 0]
    /\ UNCHANGED <<httpServer, io, isRunning>>

\* stopWebServer(): resolves at once unless isRunning && httpServer; otherwise
\* disconnectAll(), io.close(), io = null and httpServer.close(callback)
StopWebServer ==
    /\ UNCHANGED <<localVars, uiVars, layoutVars, mountVars>>
    /\ IF ~isRunning \/ httpServer = 0
       THEN /\ wlast' = [op |-> "stop", created |-> 0]
            /\ UNCHANGED <<servers, httpServer, io, isRunning>>
            /\ UNCHANGED remoteVars
       ELSE /\ disconnectAll
            /\ servers' =
                  [k \in DOMAIN servers |->
                      [state |-> IF k = httpServer /\ servers[k].state \in {"starting", "listening"}
                                 THEN "closing" ELSE servers[k].state,
                       ioOpen |-> servers[k].ioOpen /\ k # io,
                       closePending |-> servers[k].closePending \/ k = httpServer]]
            /\ io' = 0
            /\ wlast' = [op |-> "stop", created |-> 0]
            /\ UNCHANGED <<httpServer, isRunning>>

\* The callback given to httpServer.close of server k: isRunning = false,
\* httpServer = null
CloseCallback(k) ==
    /\ UNCHANGED <<localVars, remoteVars, uiVars, layoutVars, mountVars>>
    /\ k \in DOMAIN servers
    /\ servers[k].closePending
    /\ servers' = [servers EXCEPT ![k].closePending = FALSE,
                                  ![k].state = IF @ = "closing" THEN "closed" ELSE @]
    /\ isRunning' = FALSE
    /\ httpServer' = 0
    /\ wlast' = [op |-> "closeCallback", created |-> 0]
    /\ UNCHANGED io

InitWeb ==
    /\ servers = <<>>
    /\ httpServer = 0
    /\ io = 0
    /\ isRunning = FALSE
    /\ wlast = [op |-> "init", created |-> 0]

NextWeb ==
    \/ StartWebServer
    \/ \E k \in 1..MaxServers : ListenCallback(k)
    \/ \E k \in 1..MaxServers : ListenError(k)
    \/ StopWebServer
    \/ \E k \in 1..MaxServers : CloseCallback(k)

\* ------------------------------------------------------------------------
\* Renderer: rendering of the layout, mount and unmount of XTerminal
\* ------------------------------------------------------------------------

TabSet(ts) == { ts[i] : i \in 1..Len(ts) }

\* The branch of SplitTerminalView that renders the layout
View(layout) ==
    IF layout.direction = "grid" THEN "grid"
    ELSE IF layout.layoutId \in {"left-main", "top-main"} THEN layout.layoutId
    ELSE "linear"

\* The XTerminal components rendered for the tabs ts and the layout: in the
\* 'single' layout one per tab (keyed by the tab id), otherwise one per panel
\* whose terminalId is set and names a tab.  slot: the component's place in
\* the tree, tid: its terminalId prop.
Instances(ts, layout) ==
    IF layout.layoutId = "single" \/ Len(layout.panels) = 1
    THEN { [slot |-> <<IF layout.layoutId = "single" THEN "tabs" ELSE "split", t>>,
            tid |-> t] : t \in TabSet(ts) }
    ELSE { [slot |-> <<View(layout), k>>, tid |-> layout.panels[k].terminalId] :
              k \in { j \in 1..Len(layout.panels) :
                         layout.panels[j].terminalId \in TabSet(ts) } }

\* Terminal ids some rendered XTerminal displays
Displayed == { i.tid : i \in Instances(tabs, splitLayout) }

\* The module state of XTerminal as one record
MountState ==
    [mounted |-> mountedComponents, instances |-> terminalInstances,
     timers |-> cleanupTimers, calls |-> initCalls]

\* One React commit that replaces the rendered components old by new: first the
\* effect cleanups of the components that left (mountedComponents.delete and
\* the 100 ms timeout), then the effects of those that came
\* (mountedComponents.add; reuse of the xterm instance if one exists, else a
\* new instance and a call of initTerminal)
Commit(m, old, new) ==
    LET removed == { i.tid : i \in old \ new }
        added == { i.tid : i \in new \ old }
        created == added \ m.instances
    IN  [mounted |-> (m.mounted \ removed) \cup added,
         instances |-> m.instances \cup created,
         timers |-> m.timers \cup removed,
         calls |-> m.calls \cup (created \ initializedTerminals)]

SetMount(m) ==
    /\ mountedComponents' = m.mounted
    /\ terminalInstances' = m.instances
    /\ cleanupTimers' = m.timers
    /\ initCalls' = m.calls

\* TerminalPanel's effect on a change of the layout id to a split layout:
\* tab number i is assigned to panel number i
TabsToPanels(layout, ts) ==
    [layout EXCEPT !.panels =
        [i \in 1..Len(@) |->
            IF i <= Len(ts) THEN [@[i] EXCEPT !.terminalId = ts[i]] ELSE @[i]]]

\* SplitTerminalView's effect: the first panel, if unassigned, gets the first tab
AutoAssign(layout, ts) ==
    IF layout.layoutId # "single" /\ layout.panels[1].terminalId = NoTerminal /\ ts # <<>>
    THEN [layout EXCEPT !.panels[1].terminalId = ts[1]]
    ELSE layout

\* The layout selector's handleLayoutSelect: setSplitLayout, the render of its
\* result, the two effects and the render of theirs
SelectLayout(layoutId) ==
    LET L1 == [layoutId |-> layoutId, panels |-> NewPanels(layoutId),
               direction |-> SPLIT_LAYOUTS[layoutId].direction]
        toSplit == layoutId # splitLayout.layoutId /\ layoutId # "single"
        L2 == AutoAssign(IF toSplit THEN TabsToPanels(L1, tabs) ELSE L1, tabs)
        I0 == Instances(tabs, splitLayout)
        I1 == Instances(tabs, L1)
        I2 == Instances(tabs, L2)
    IN  /\ layoutId \in LayoutIds
        /\ llast' = LayoutOp("setSplitLayout", 0, 0, 0)
        /\ splitLayout' = L2
        /\ activePanelId' = 0
        /\ activeTerminalId' = IF toSplit THEN tabs[1] ELSE activeTerminalId
        /\ SetMount(Commit(Commit(MountState, I0, I1), I1, I2))
        /\ UNCHANGED <<tabs, nextTabId>>
        /\ UNCHANGED <<localVars, remoteVars, uiVars, webVars>>

\* SplitTerminalView's handleSelectTerminal: assignTerminalToPanel,
\* setActiveTerminalId, and the render of the result
SelectTerminal(panelId, terminalId) ==
    LET L1 == [splitLayout EXCEPT
                  !.panels = PanelsAfterAssign(@, panelId, terminalId)]
        L2 == AutoAssign(L1, tabs)
        I0 == Instances(tabs, splitLayout)
    IN  /\ splitLayout.layoutId # "single"
        /\ panelId + 1 \in 1..Len(splitLayout.panels)
        /\ terminalId \in TabSet(tabs)
        /\ llast' = LayoutOp("assignTerminalToPanel", 0, 0, 0)
        /\ splitLayout' = L2
        /\ activeTerminalId' = terminalId
        /\ SetMount(Commit(Commit(MountState, I0, Instances(tabs, L1)),
                           Instances(tabs, L1), Instances(tabs, L2)))
        /\ UNCHANGED <<activePanelId, tabs, nextTabId>>
        /\ UNCHANGED <<localVars, remoteVars, uiVars, webVars>>

\* SplitPanel's handleDrop: swapTerminals, the render of the result, the
\* auto-assign effect and the render of its result
DropTerminal(droppedTerminalId, targetPanelId) ==
    LET L1 == [splitLayout EXCEPT
                  !.panels = PanelsAfterSwap(@, droppedTerminalId, targetPanelId)]
        L2 == AutoAssign(L1, tabs)
        I0 == Instances(tabs, splitLayout)
    IN  /\ splitLayout.layoutId # "single"
        /\ targetPanelId + 1 \in 1..Len(splitLayout.panels)
        /\ droppedTerminalId \in TabSet(tabs)
        /\ llast' = LayoutOp("swapTerminals", 0, 0, 0)
        /\ splitLayout' = L2
        /\ SetMount(Commit(Commit(MountState, I0, Instances(tabs, L1)),
                           Instances(tabs, L1), Instances(tabs, L2)))
        /\ UNCHANGED <<activePanelId, activeTerminalId, tabs, nextTabId>>
        /\ UNCHANGED <<localVars, remoteVars, uiVars, webVars>>

\* A ratio change (handleResize, handleRatioChange): updatePanelRatios; the
\* rendered components stay
ResizePanels(ratios) ==
    /\ Len(ratios) = Len(splitLayout.panels)
    /\ Len(ratios) > 1
    /\ llast' = LayoutOp("updatePanelRatios", 0, 0, 0)
    /\ splitLayout' =
          [splitLayout EXCEPT !.panels =
              [i \in 1..Len(@) |-> [@[i] EXCEPT !.ratio = ratios[i]]]]
    /\ UNCHANGED <<activePanelId, activeTerminalId>>
    /\ UNCHANGED <<localVars, remoteVars, uiVars, webVars, mountVars>>

\* createNewTab and the render of the result
CreateNewTab ==
    LET ts == Append(tabs, nextTabId)
        L2 == AutoAssign(splitLayout, ts)
    IN  /\ nextTabId \in Ids
        /\ tabs' = ts
        /\ nextTabId' = nextTabId + 1
        /\ activeTerminalId' = nextTabId
        /\ splitLayout' = L2
        /\ SetMount(Commit(MountState, Instances(tabs, splitLayout), Instances(ts, L2)))
        /\ UNCHANGED <<activePanelId, llast>>
        /\ UNCHANGED <<localVars, remoteVars, uiVars, webVars>>

\* closeTab(id) and the render of the result; closing the last tab opens the
\* 'default' tab again
CloseTab(id) ==
    LET rest == SelectSeq(tabs, LAMBDA t : t # id)
        ts == IF rest = <<>> THEN <<DefaultId>> ELSE rest
        L2 == AutoAssign(splitLayout, ts)
    IN  /\ id \in TabSet(tabs)
        /\ tabs' = ts
        /\ splitLayout' = L2
        /\ SetMount(Commit(MountState, Instances(tabs, splitLayout), Instances(ts, L2)))
        /\ UNCHANGED <<nextTabId, activePanelId, activeTerminalId, llast>>
        /\ UNCHANGED <<localVars, remoteVars, uiVars, webVars>>

\* The initTerminal() call of a new xterm instance reaches the main process.
\* The rendering is studied in the runs in which claude starts, so that the
\* fallback of initTerminal is not needed.
MountInit(id) ==
    /\ id \in initCalls
    /\ initCalls' = initCalls \ {id}
    /\ initTerminal(id)
    /\ last'.ok
    /\ UNCHANGED <<tabs, nextTabId, mountedComponents, terminalInstances, cleanupTimers>>
    /\ UNCHANGED <<remoteVars, layoutVars, webVars>>

\* The timeout of the unmount cleanup fires: nothing if the id is marked as
\* mounted; otherwise, if the id has an xterm instance, the instance is
\* disposed, the id leaves terminalInstances and initializedTerminals and
\* terminal.kill({id}) is sent.  The runClaude request of the id, sent before,
\* reaches the main process first.
CleanupTimer(id) ==
    /\ id \in cleanupTimers
    /\ id \notin initCalls
    /\ cleanupTimers' = cleanupTimers \ {id}
    /\ IF id \notin mountedComponents /\ id \in terminalInstances
       THEN /\ terminalInstances' = terminalInstances \ {id}
            /\ initializedTerminals' = initializedTerminals \ {id}
            /\ initPc' = [initPc EXCEPT ![id] = "none"]
            /\ xtermBanner' = [xtermBanner EXCEPT ![id] = FALSE]
            /\ terminal_kill(id)
            /\ UNCHANGED <<pendingTerminals, mainWindow, ptyLoaded>>
       ELSE UNCHANGED <<terminalInstances, initializedTerminals, initPc, xtermBanner, localVars>>
    /\ UNCHANGED <<tabs, nextTabId, mountedComponents, initCalls>>
    /\ UNCHANGED <<remoteVars, layoutVars, webVars>>

\* The first render: the 'default' tab's XTerminal is mounted
InitMount ==
    /\ tabs = <<DefaultId>>
    /\ nextTabId = DefaultId + 1
    /\ mountedComponents = {DefaultId}
    /\ terminalInstances = {DefaultId}
    /\ cleanupTimers = {}
    /\ initCalls = {DefaultId}

\* Templates the rendered layout selector is used with
RenderLayouts == { l \in LayoutIds : SPLIT_LAYOUTS[l].panels <= MaxRenderPanels }

NextRender ==
    \/ \E l \in RenderLayouts : SelectLayout(l)
    \/ \E k \in 0..(MaxRenderPanels - 1), t \in Ids : SelectTerminal(k, t)
    \/ \E t \in Ids, k \in 0..(MaxRenderPanels - 1) : DropTerminal(t, k)
    \/ \E rs \in RatioLists : ResizePanels(rs)
    \/ CreateNewTab
    \/ \E t \in Ids : CloseTab(t)
    \/ \E t \in Ids : MountInit(t)
    \/ \E t \in Ids : CleanupTimer(t)

Init == InitLocal /\ InitRemote /\ InitUI /\ InitLayout /\ InitWeb /\ InitMount

SpecLocal == Init /\ [][NextLocal]_vars

\* The gateway loads node-pty on its own (webTerminal.ts:8-13) and registers no
\* handler without it, so the gateway is studied with the library loaded.
InitGateway == InitLocal /\ ptyLoaded /\ InitRemote /\ InitUI /\ InitLayout /\ InitWeb /\ InitMount

SpecRemote == InitGateway /\ [][NextRemote]_vars

\* The main process driven by the renderer: runClaude and create are invoked
\* by initTerminal only, write and resize by the xterm's onData and onResize
NextUI ==
    \/ \E id \in Ids : InitTerminal(id)
    \/ \E id \in Ids : InitFallback(id)
    \/ \E id \in Ids : Write(id)
    \/ \E id \in Ids : Resize(id)
    \/ \E p \in 1..MaxProcs : OnData(p)
    \/ \E p \in 1..MaxProcs : ProcExit(p)
    \/ \E p \in 1..MaxProcs : OnExit(p)
    \/ WindowDestroyed
    \/ WindowClosed
    \/ CreateWindow

SpecUI == Init /\ [][NextUI]_vars

\* The layout store driven by its operations
InitRenderer == Init /\ ptyLoaded

SpecLayout == InitRenderer /\ [][NextLayout]_vars

\* The web server driven by start and stop requests and by its callbacks
SpecWeb == InitRenderer /\ [][NextWeb]_vars

\* The renderer's layout and tab operations with the rendering that follows
\* them, driving the main process
SpecRender == InitRenderer /\ [][NextRender]_vars

Spec == SpecLocal

\* ------------------------------------------------------------------------
\* Properties of the local terminal manager (SpecLocal)
\* ------------------------------------------------------------------------

\* Processes spawned for id that are running and have not been sent kill()
LiveProcs(id) ==
    { p \in DOMAIN procs : procs[p].id = id /\ procs[p].state = "running" /\ ~procs[p].killed }

\* C1: create(id) issued while id already has a registry entry spawns no
\* process and does not replace the entry, so at most one live PTY exists per
\* logical id.
C1_CreateIdempotent ==
    /\ (last.op = "create" /\ last.had # NoEntry)
           => (~last.spawned /\ terminals[last.id] = last.had)
    /\ \A id \in Ids : Cardinality(LiveProcs(id)) <= 1

\* The exit callback of process last.proc ran while the registry named another
\* process with another PID for the id
StaleExit ==
    /\ last.op = "onExit"
    /\ last.had # NoEntry
    /\ last.had # last.proc
    /\ procs[last.had].pid # procs[last.proc].pid

\* C2: when a terminal was killed and re-created (by create or by runClaude)
\* before the old process's exit event fires, the late exit event carrying the
\* old PID does not delete the new registry entry and sends no exit
\* notification to the UI.
C2_StaleExitDiscarded ==
    StaleExit => (~last.sent /\ ~last.ok /\ terminals[last.id] = last.had)

C2_Witness ==
    /\ StaleExit
    /\ procs[last.proc].killed
    /\ procs[last.had].state = "running"
    /\ terminals[last.id] = last.had
    /\ windowAlive

\* C3: a data event of a PTY whose PID is not the PID registered for its id
\* (the id has no entry, or is bound to another process) is never forwarded
\* to the UI, for terminals started by create and by runClaude alike.
C3_StaleDataDiscarded ==
    (/\ last.op = "onData"
     /\ \/ last.had = NoEntry
        \/ procs[last.had].pid # procs[last.proc].pid)
        => ~last.sent

\* A handler of the local manager ran in this step.  The termination of a
\* process runs no handler and leaves the record of the last handler as it was;
\* a handler that repeats the previous one on an unchanged state is a
\* stuttering step.
HandlerStep(op) == last' # last /\ last'.op = op

C13_Step ==
    \A id \in Ids :
        (HandlerStep("runClaude") /\ last'.id = id)
            => /\ (terminals[id] # NoEntry \/ id \in pendingTerminals)
                    => (/\ last'.ok
                        /\ ~last'.spawned
                        /\ UNCHANGED <<terminals, pendingTerminals, procs>>)
               /\ last'.spawned
                    => (/\ terminals[id] = NoEntry
                        /\ id \notin pendingTerminals
                        /\ Len(procs') = Len(procs) + 1)

\* C13: runClaude(id) called while id is pending or has a registry entry
\* returns success without spawning and changes nothing; a runClaude call
\* spawns (one process) only for an id that is neither pending nor registered.
C13_RunClaudeGuard == [][C13_Step]_vars

C13_Witness ==
    /\ last.op = "runClaude"
    /\ last.had # NoEntry
    /\ last.ok
    /\ ~last.spawned
    /\ terminals[last.id] = last.had
    /\ procs[last.had].state = "running"

C15_Step ==
    \A id \in Ids :
        (/\ HandlerStep("write") \/ HandlerStep("resize")
         /\ last'.id = id
         /\ terminals[id] = NoEntry)
            => (/\ ~last'.ok
                /\ last'.proc = 0
                /\ ~last'.spawned
                /\ UNCHANGED <<terminals, pendingTerminals, procs>>)

\* C15: write(id) and resize(id) on an id without registry entry reach no
\* PTY, leave the registry, the pending set and every process as they were and
\* return success = false ('Terminal not found'); a process takes input only
\* from a write made while it is the one registered for the id, so nothing
\* written while the id was absent reaches a PTY created later.
C15_AbsentWriteDropped ==
    /\ [][C15_Step]_vars
    /\ []((last.op \in {"write", "resize"} /\ last.proc # 0)
            => (last.ok /\ last.had = last.proc /\ procs[last.proc].id = last.id))

C15_Witness ==
    /\ last.op = "write"
    /\ last.had = NoEntry
    /\ ~last.ok
    /\ last.proc = 0
    /\ terminals[last.id] = NoEntry
    /\ \E p \in DOMAIN procs : procs[p].id = last.id /\ procs[p].killed

C16_Step ==
    \A id \in Ids :
        (HandlerStep("kill") /\ last'.id = id)
            => (/\ terminals'[id] = NoEntry
                /\ terminals[id] # NoEntry => procs'[terminals[id]].killed
                /\ \A other \in Ids \ {id} : terminals'[other] = terminals[other]
                /\ pendingTerminals' = pendingTerminals
                /\ terminals[id] = NoEntry
                      => UNCHANGED <<terminals, pendingTerminals, procs>>)

\* C16: kill(id) leaves id without registry entry, with kill() called on the
\* process that was registered for it, and touches no other id; kill(id) on an
\* id that has no entry changes neither the registry nor the pending set nor
\* any process, so a second kill leaves the state of the first.
C16_KillIdempotent == [][C16_Step]_vars

C16_Witness ==
    /\ last.op = "kill"
    /\ last.had = NoEntry
    /\ terminals[last.id] = NoEntry
    /\ \E p \in DOMAIN procs :
          procs[p].id = last.id /\ procs[p].killed /\ procs[p].state = "running"

C17_Step ==
    \A p \in 1..MaxProcs :
        /\ (/\ p \in DOMAIN procs
            /\ HandlerStep("onExit")
            /\ last'.proc = p
            /\ terminals[procs[p].id] = p)
               => (/\ terminals'[procs[p].id] = NoEntry
                   /\ procs[p].id \notin pendingTerminals'
                   /\ last'.ok
                   /\ windowAlive => (last'.sent /\ procs'[p].exitSent))
        /\ (p \in DOMAIN procs /\ procs[p].state = "done") => procs'[p] = procs[p]

\* C17: when the exit event of the process registered for id fires, the
\* entry of id is deleted and the exit callback hands one terminal:exit for id
\* to safeSend (which delivers it while the window is alive); id is then
\* neither registered nor pending, so it can be created again.  A process
\* whose exit callback has run takes part in nothing further, so there is no
\* second notification.
C17_MatchedExit == [][C17_Step]_vars

C17_Witness ==
    /\ last.op = "onExit"
    /\ last.had = last.proc
    /\ last.ok
    /\ last.sent
    /\ procs[last.proc].exitSent
    /\ terminals[last.id] = NoEntry

\* C18: once the exit notification of a process has been sent to the UI, no
\* data event of that process is delivered.
C18_ExitIsLast ==
    (last.op = "onData" /\ last.sent) => ~procs[last.proc].exitSent

C18_Witness ==
    /\ last.op = "onData"
    /\ last.sent
    /\ procs[last.proc].state = "exiting"
    /\ \E q \in DOMAIN procs : procs[q].exitSent /\ procs[q].id = last.id

C19_Step ==
    \A id \in Ids :
        (HandlerStep("runClaude") /\ last'.id = id) => id \notin pendingTerminals'

\* C19: whenever a handler can run, no id is both pending and registered;
\* when a runClaude call has returned, with success or with a spawn failure,
\* its id is not pending.
C19_PendingDisjoint ==
    /\ [](\A id \in Ids : ~(id \in pendingTerminals /\ terminals[id] # NoEntry))
    /\ [][C19_Step]_vars

C19_Witness ==
    /\ last.op = "runClaude"
    /\ ptyLoaded
    /\ last.had = NoEntry
    /\ ~last.ok
    /\ last.id \notin pendingTerminals
    /\ terminals[last.id] = NoEntry

C20_Step ==
    /\ \A p \in 1..MaxProcs :
          (/\ p \in DOMAIN procs
           /\ ~windowAlive
           /\ HandlerStep("onData") \/ HandlerStep("onExit")
           /\ last'.proc = p)
              => (/\ ~last'.sent
                  /\ ~procs'[p].exitSent
                  /\ (HandlerStep("onExit") /\ terminals[procs[p].id] = p)
                        => (last'.ok /\ terminals'[procs[p].id] = NoEntry))
    /\ HandlerStep("createWindow") => (~last'.sent /\ procs' = procs)
    /\ \A p \in DOMAIN procs :
          (procs[p].state = "done" /\ ~procs[p].exitSent) => ~procs'[p].exitSent

\* C20: while the window is destroyed or gone, a data or exit event of a PTY
\* is not delivered; nothing is kept for later: creating a window delivers
\* nothing, and a notification that was dropped is never sent afterwards; an
\* exit of the registered process still deletes the registry entry.
C20_DroppedWhenTornDown == [][C20_Step]_vars

C20_Witness ==
    /\ last.op = "onExit"
    /\ mainWindow = "destroyed"
    /\ last.had = last.proc
    /\ last.ok
    /\ ~last.sent
    /\ ~procs[last.proc].exitSent
    /\ terminals[last.id] = NoEntry

C14_Step ==
    \A id \in Ids :
        (initPc[id] = "failed" /\ initPc'[id] = "listening")
            => (/\ terminals'[id] # NoEntry
                /\ procs'[terminals'[id]].via = "create"
                /\ procs'[terminals'[id]].state = "running"
                /\ xtermBanner'[id])

\* C14: when runClaude(x) fails, initTerminal ends with a registry entry for x
\* whose process is a running plain shell started by create, and the failure
\* reason has been written to x's terminal (so that later operations on x find
\* the entry).
C14_FallbackShell == [][C14_Step]_vars

\* ------------------------------------------------------------------------
\* Properties of the remote access gateway (SpecRemote)
\* ------------------------------------------------------------------------

\* Sockets that are connected and authenticated
AuthenticatedSockets == { s \in SocketIds : sock[s].state = "open" /\ sock[s].authenticated }

\* Gateway processes that are running and have not been sent kill()
LiveRemoteProcs == { p \in DOMAIN rprocs : rprocs[p].state = "running" /\ ~rprocs[p].killed }

\* The socket was turned away by the connection handler
Rejected(s) == sock[s].state = "closed" /\ ~sock[s].admitted

\* An authenticated connection holds a terminal
SomeoneHoldsTerminal ==
    \E t \in SocketIds :
        sock[t].state = "open" /\ sock[t].authenticated /\ sock[t].terminalSession # 0

\* A step in which socket rlast'.s connects while the ceiling is 1 and an
\* authenticated connection holds a terminal
C4_Step ==
    (/\ rlast'.op = "connection"
     /\ sock[rlast'.s].state = "idle"
     /\ getMaxConnections = 1
     /\ SomeoneHoldsTerminal)
        => (/\ rlast'.emitted = {ErrCapacity}
            /\ sock'[rlast'.s].state = "closed"
            /\ ~sock'[rlast'.s].admitted)

\* C4: with a ceiling of 1 and one authenticated connection that holds a
\* terminal, every further socket that connects is sent an error and
\* disconnected, and never receives auth_success.
C4_CapacityBeforeAuth ==
    /\ [][C4_Step]_vars
    /\ [][\A s \in SocketIds : Rejected(s) => Rejected(s)']_vars
    /\ [](\A s \in SocketIds : Rejected(s) => "auth_success" \notin got[s])

C4_Witness ==
    /\ rlast.op = "connection"
    /\ rlast.emitted = {ErrCapacity}
    /\ Rejected(rlast.s)
    /\ SomeoneHoldsTerminal
    /\ accessToken # Null

\* C5: the number of concurrently authenticated remote connections, and the
\* number of remote PTYs alive at once, never exceeds the edition's ceiling.
C5_CeilingRespected ==
    /\ Cardinality(AuthenticatedSockets) <= getMaxConnections
    /\ Cardinality(LiveRemoteProcs) <= getMaxConnections

\* C6: a PTY exists for a socket, or an input or resize of the socket reaches
\* a PTY, only if the socket earlier presented the token that was the valid
\* one at that moment.
C6_AuthBeforeTerminal ==
    /\ \A p \in DOMAIN rprocs : authTok[rprocs[p].socket] # Null
    /\ (rlast.op \in {"terminal_input", "terminal_resize"} /\ rlast.proc # 0)
           => (authTok[rlast.s] # Null /\ rprocs[rlast.proc].socket = rlast.s)

C6_Witness ==
    /\ rlast.op \in {"terminal_input", "terminal_resize"}
    /\ rlast.proc # 0
    /\ authTok[rlast.s] # Null

\* C7: an auth message whose token is missing or invalid is answered with
\* auth_error and the socket is disconnected.
C7_BadAuthRejected ==
    (rlast.op = "auth" /\ rlast.tok \in {"nopayload", "missing", "previous", "other"})
        => (rlast.emitted = {"auth_error"} /\ sock[rlast.s].state = "closed")

\* C8: validateToken accepts the most recently generated token and rejects
\* every other value, in particular every token generated before it; before
\* the first token is generated it accepts nothing.
C8_OneValidToken ==
    /\ \A t \in PresentedTokens : validateToken(t) <=> (accessToken # Null /\ t = accessToken)
    /\ \A t \in generated : t # accessToken => ~validateToken(t)
    /\ accessToken # Null => accessToken \in generated

C8_Witness ==
    /\ rlast.op = "regenerateToken"
    /\ Cardinality(generated) >= 2
    /\ validateToken(accessToken)

\* The socket authenticated with a token that is no longer the current one
OldSession(s) ==
    /\ sock[s].state = "open"
    /\ sock[s].authenticated
    /\ authTok[s] # Null
    /\ authTok[s] # accessToken

C9_Step ==
    /\ rlast'.op = "regenerateToken" => UNCHANGED <<sock, webTerminals, rprocs>>
    /\ (rlast'.op = "create_terminal" /\ OldSession(rlast'.s))
           => ErrNotAuthenticated \notin rlast'.emitted
    /\ (/\ rlast'.op \in {"terminal_input", "terminal_resize"}
        /\ OldSession(rlast'.s)
        /\ sock[rlast'.s].terminalSession # 0)
           => rlast'.proc = sock[rlast'.s].terminalSession
    /\ (/\ rlast'.op = "auth"
        /\ sock[rlast'.s].state = "open"
        /\ ~sock[rlast'.s].authenticated
        /\ rlast'.tok = "previous")
           => (rlast'.emitted = {"auth_error"} /\ sock'[rlast'.s].state = "closed")

\* C9: regenerateToken leaves every connection and every PTY untouched; a
\* socket that authenticated with the previous token is still served
\* (create_terminal is not refused as unauthenticated, terminal_input and
\* terminal_resize reach its PTY); a socket that has not authenticated and
\* presents the previous token gets auth_error and is disconnected.
C9_RotationKeepsSessions == [][C9_Step]_vars

C9_Witness ==
    /\ rlast.op = "auth"
    /\ rlast.tok = "previous"
    /\ rlast.emitted = {"auth_error"}
    /\ \E t \in SocketIds :
          /\ OldSession(t)
          /\ sock[t].terminalSession # 0
          /\ sock[t].terminalSession \in LiveRemoteProcs

\* Processes spawned for socket s that are running and have not been sent kill()
LiveProcsOf(s) == { p \in LiveRemoteProcs : rprocs[p].socket = s }

C10_Step ==
    (/\ rlast'.op = "create_terminal"
     /\ sock[rlast'.s].state = "open"
     /\ sock[rlast'.s].terminalSession # 0)
        => (/\ rlast'.emitted = {ErrTerminalExists}
            /\ ~rlast'.spawned
            /\ UNCHANGED <<sock, webTerminals, rprocs>>)

\* C10: create_terminal on a socket that owns a terminal is answered with an
\* error event, spawns nothing and leaves the terminal and the connection as
\* they were; a connection never has more than one live PTY.
C10_OneTerminalPerSocket ==
    /\ [][C10_Step]_vars
    /\ [](\A s \in SocketIds : Cardinality(LiveProcsOf(s)) <= 1)

C10_Witness ==
    /\ rlast.op = "create_terminal"
    /\ rlast.emitted = {ErrTerminalExists}
    /\ sock[rlast.s].state = "open"
    /\ sock[rlast.s].terminalSession \in LiveRemoteProcs

\* The exit callback of process p runs while the socket that created p has
\* another process as its current terminal: p was ended by kill_terminal and a
\* later create_terminal on the same socket made the current one
StaleRemoteExit(p) ==
    /\ p \in DOMAIN rprocs
    /\ rprocs[p].state = "exiting"
    /\ sock[rprocs[p].socket].state = "open"
    /\ sock[rprocs[p].socket].terminalSession # 0
    /\ sock[rprocs[p].socket].terminalSession # p

C11_Step ==
    \A p \in 1..MaxRProcs :
        (StaleRemoteExit(p) /\ rlast'.op = "onExit" /\ rlast'.proc = p)
            => (/\ "terminal_exit" \notin rlast'.emitted
                /\ UNCHANGED <<sock, webTerminals>>
                /\ rprocs'[sock[rprocs[p].socket].terminalSession]
                       = rprocs[sock[rprocs[p].socket].terminalSession])

\* C11: on a remote socket, the exit event of a PTY that is no longer the
\* socket's current terminal (ended by kill_terminal, a create_terminal
\* followed) is discarded: no terminal_exit is sent to the client and the
\* newer terminal is neither killed nor deregistered.
C11_StaleRemoteExitDiscarded == [][C11_Step]_vars

\* Processes of socket s on which kill() has not been called and that have
\* not terminated
UnkilledProcsOf(s) ==
    { p \in DOMAIN rprocs : rprocs[p].socket = s /\ rprocs[p].state = "running"
                                /\ ~rprocs[p].killed }

C12_Step ==
    \A s \in SocketIds :
        (/\ rlast'.op \in {"disconnect", "kill_terminal"}
         /\ rlast'.s = s
         /\ sock[s].state = "open"
         /\ sock[s].terminalSession # 0)
            => (/\ rprocs'[sock[s].terminalSession].killed
                /\ webTerminals'[s] = 0
                /\ sock'[s].terminalSession = 0
                /\ UnkilledProcsOf(s)' = {})

\* C12: when a socket that owns a terminal disconnects or sends
\* kill_terminal, kill() is called on its PTY and its key leaves webTerminals;
\* a socket that is gone has no PTY left alive and no key in webTerminals.
C12_TeardownOnDisconnect ==
    /\ [][C12_Step]_vars
    /\ [](\A s \in SocketIds :
            sock[s].state = "closed" => (webTerminals[s] = 0 /\ UnkilledProcsOf(s) = {}))

C12_Witness ==
    /\ rlast.op = "disconnect"
    /\ rlast.proc # 0
    /\ sock[rlast.s].state = "closed"
    /\ rprocs[rlast.proc].state = "running"
    /\ rprocs[rlast.proc].killed
    /\ webTerminals[rlast.s] = 0

\* ------------------------------------------------------------------------
\* Properties of the split layout (SpecLayout)
\* ------------------------------------------------------------------------

\* The panels' assignments, by position
Assignments(panels) == [i \in 1..Len(panels) |-> panels[i].terminalId]

\* C21: swap(droppedTerminalId, targetPanelId) sets the target panel's
\* assignment to the dropped terminal; when some panel held the dropped
\* terminal before, that source panel is set to what the target panel held
\* before (so never to null when the target held a terminal); every other
\* panel keeps its assignment.
C21_Step ==
    (llast'.op = "swapTerminals" /\ llast'.b + 1 \in 1..Len(splitLayout.panels)) =>
        LET d == llast'.a
            t == llast'.b + 1
            P == Assignments(splitLayout.panels)
            Q == Assignments(splitLayout'.panels)
            holders == { i \in 1..Len(P) : P[i] = d }
        IN  /\ Len(Q) = Len(P)
            /\ Q[t] = d
            /\ IF holders = {}
               THEN \A i \in 1..Len(P) \ {t} : Q[i] = P[i]
               ELSE \E s \in holders :
                       /\ s # t => Q[s] = P[t]
                       /\ \A i \in 1..Len(P) \ {s, t} : Q[i] = P[i]

C21_SwapExchanges == [][C21_Step]_vars

\* A swap between two different panels whose target held another terminal:
\* the source panel now holds it
C21_Witness ==
    /\ llast.op = "swapTerminals"
    /\ llast.c.source # 0
    /\ llast.c.source # llast.b + 1
    /\ llast.c.held \notin {NoTerminal, llast.a}
    /\ splitLayout.panels[llast.b + 1].terminalId = llast.a
    /\ splitLayout.panels[llast.c.source].terminalId = llast.c.held

\* No terminal id is assigned to more than one panel
NoDuplicate(A) ==
    \A i, j \in 1..Len(A) : (i # j /\ A[i] # NoTerminal) => A[i] # A[j]

\* A is a rearrangement of B: every value occurs as often in A as in B
IsPermutation(A, B) ==
    /\ Len(A) = Len(B)
    /\ \A v \in Ids \cup {NoTerminal} :
          Cardinality({ i \in 1..Len(A) : A[i] = v })
              = Cardinality({ i \in 1..Len(B) : B[i] = v })

\* C29: if no terminal id is assigned to more than one panel before a swap and
\* the dropped terminal is assigned to some panel, the swap only permutes the
\* assignments: the same terminals are assigned as before, each once.
C29_Step ==
    (/\ llast'.op = "swapTerminals"
     /\ llast'.b + 1 \in 1..Len(splitLayout.panels)
     /\ NoDuplicate(Assignments(splitLayout.panels))
     /\ \E i \in 1..Len(splitLayout.panels) : splitLayout.panels[i].terminalId = llast'.a)
        => /\ IsPermutation(Assignments(splitLayout'.panels), Assignments(splitLayout.panels))
           /\ NoDuplicate(Assignments(splitLayout'.panels))

C29_SwapPermutes == [][C29_Step]_vars

\* A swap moved a terminal from its panel to another one and no terminal is
\* assigned twice
C29_Witness ==
    /\ llast.op = "swapTerminals"
    /\ llast.c.source # 0
    /\ llast.b + 1 \in 1..Len(splitLayout.panels)
    /\ llast.c.source # llast.b + 1
    /\ llast.c.held # llast.a
    /\ NoDuplicate(Assignments(splitLayout.panels))

\* C24: assign(panelId, terminalId) changes only that panel's assignment;
\* every other panel's assignment, all ratios, the layout id, the direction
\* and the active panel are unchanged.
C24_Step ==
    llast'.op = "assignTerminalToPanel" =>
        LET P == splitLayout.panels
            Q == splitLayout'.panels
        IN  /\ Len(Q) = Len(P)
            /\ \A i \in 1..Len(P) :
                  /\ Q[i].id = P[i].id
                  /\ Q[i].ratio = P[i].ratio
                  /\ Q[i].terminalId = IF P[i].id = llast'.a THEN llast'.b
                                       ELSE P[i].terminalId
            /\ splitLayout'.layoutId = splitLayout.layoutId
            /\ splitLayout'.direction = splitLayout.direction
            /\ activePanelId' = activePanelId

C24_AssignLocal == [][C24_Step]_vars

\* A panel was assigned a terminal while another panel holds a different one
C24_Witness ==
    /\ llast.op = "assignTerminalToPanel"
    /\ llast.a + 1 \in 1..Len(splitLayout.panels)
    /\ splitLayout.panels[llast.a + 1].terminalId = llast.b
    /\ \E i \in 1..Len(splitLayout.panels) :
          splitLayout.panels[i].terminalId \notin {NoTerminal, llast.b}

RECURSIVE SumSeq(_)
SumSeq(s) == IF s = <<>> THEN 0 ELSE Head(s) + SumSeq(Tail(s))

\* Sum of the panels' ratios
RatioSum(panels) == SumSeq([i \in 1..Len(panels) |-> panels[i].ratio])

\* C22: after any updateRatios call, for any ratio list of matching length,
\* and after every other layout mutation, the ratios of the panels sum to 100.
C22_RatiosSumTo100 == RatioSum(splitLayout.panels) = 100

\* C23 as stated: selectLayout(layoutId) yields one panel per slot of the
\* template; the Nth terminal assigned before is the Nth new panel's
\* assignment, every extra panel is unassigned, surplus assignments are
\* dropped, and the active panel is the first panel.
C23_StepAsStated ==
    (llast'.op = "setSplitLayout" /\ llast'.a \in LayoutIds) =>
        LET existing == existingTerminalIds(splitLayout.panels)
            Q == splitLayout'.panels
        IN  /\ Len(Q) = SPLIT_LAYOUTS[llast'.a].panels
            /\ \A i \in 1..Len(Q) :
                  Q[i].terminalId = IF i <= Len(existing) THEN existing[i] ELSE NoTerminal
            /\ activePanelId' = 0

C23_SelectLayoutAsStated == [][C23_StepAsStated]_vars

\* C23, amended: as stated, except that when no panel was assigned before,
\* the first new panel is assigned the active terminal instead of starting
\* unassigned.
C23_Step ==
    (llast'.op = "setSplitLayout" /\ llast'.a \in LayoutIds) =>
        LET existing == existingTerminalIds(splitLayout.panels)
            Q == splitLayout'.panels
        IN  /\ Len(Q) = SPLIT_LAYOUTS[llast'.a].panels
            /\ \A i \in 1..Len(Q) :
                  /\ Q[i].id = i - 1
                  /\ Q[i].terminalId =
                        IF i <= Len(existing) THEN existing[i]
                        ELSE IF existing = <<>> /\ i = 1 THEN activeTerminalId
                        ELSE NoTerminal
            /\ activePanelId' = 0

C23_SelectLayout == [][C23_Step]_vars

\* A three-panel layout was selected while two different terminals were
\* assigned: they lead the new panel list in their order, the extra panel is
\* unassigned
C23_Witness ==
    /\ llast.op = "setSplitLayout"
    /\ llast.a \in LayoutIds
    /\ Len(llast.c) = 2
    /\ llast.c[1] # llast.c[2]
    /\ Len(splitLayout.panels) = 3
    /\ Assignments(splitLayout.panels) = llast.c \o <<NoTerminal>>
    /\ activePanelId = 0

\* ------------------------------------------------------------------------
\* Further properties of the local terminal manager (SpecLocal)
\* ------------------------------------------------------------------------

\* C26: every local PTY that has been spawned and has neither exited nor been
\* killed is the one registered under its id, and once the window's closed
\* handler has run no such process is left.
C26_NoOrphanProcess ==
    /\ \A p \in DOMAIN procs :
          (procs[p].state = "running" /\ ~procs[p].killed)
              => terminals[procs[p].id] = p
    /\ last.op = "closed"
          => \A p \in DOMAIN procs : procs[p].state = "running" => procs[p].killed

\* C27: the exit callback of a killed and superseded process, whatever its PID
\* and the PID of the process now registered for the id (the same PID
\* included), leaves the registry entry in place and sends no exit
\* notification.
C27_StaleExitAnyPid ==
    (/\ last.op = "onExit"
     /\ procs[last.proc].killed
     /\ last.had # NoEntry
     /\ last.had # last.proc)
        => (~last.sent /\ terminals[last.id] = last.had)

\* ------------------------------------------------------------------------
\* Properties of the web server (SpecWeb)
\* ------------------------------------------------------------------------

\* Servers that were created, have not failed and have not been asked to close
Unclosed == { k \in DOMAIN servers : servers[k].state \in {"starting", "listening"} }

\* C28: through every sequence of startWebServer and stopWebServer calls and
\* their callbacks, at most one web server that has not been closed exists,
\* httpServer, io and isRunning refer to it, and once a stop has completed no
\* server is left open.
C28_OneServer ==
    /\ Cardinality(Unclosed) <= 1
    /\ \A k \in Unclosed :
          /\ httpServer = k
          /\ io = k
          /\ servers[k].state = "listening" => isRunning
    /\ wlast.op = "closeCallback" => Unclosed = {}

\* C25: no layout operation causes a PTY to be killed, directly or through the
\* rendering of the resulting layout: in every step, a terminal whose tab is
\* open before and after the step and that has a registered process keeps
\* that process registered and not killed.
C25_Step ==
    \A t \in TabSet(tabs) \cap TabSet(tabs') :
        terminals[t] # NoEntry =>
            /\ terminals'[t] = terminals[t]
            /\ procs'[terminals[t]].killed = procs[terminals[t]].killed

C25_LayoutKeepsProcesses == [][C25_Step]_vars

\* C30: the delayed unmount cleanup disposes the xterm instance of an id, and
\* kills the id's PTY, only when no rendered terminal component displays the id.
C30_Step ==
    \A t \in Ids :
        \/ /\ t \in terminalInstances
           /\ t \notin terminalInstances'
        \/ /\ terminals[t] # NoEntry
           /\ terminals'[t] = NoEntry
        => t \notin Displayed

C30_KillOnlyWhenUndisplayed == [][C30_Step]_vars

====
